---- MODULE Spec2Model ----
(***************************************************************************)
(* Ride-request lifecycle of ride_easy: the rider dashboard writes a       *)
(* ride-request document keyed by the rider's uid (handleRequestRide), and *)
(* the Express backend lists pending documents and applies the accept and  *)
(* complete updates.  A Firestore document is a function from the names of *)
(* the fields it holds to their values, so that a field is absent exactly  *)
(* when its name is not in the document's DOMAIN.                          *)
(***************************************************************************)
EXTENDS Integers, Sequences, FiniteSets, TLC

MaxTime == 3    \* writes are applied at instants 1..MaxTime
NumSlots == 2   \* requests the server handles in a run

\* ------------------------------------------------------------------ inputs

RiderOrder == <<"rider1", "rider2">>
Riders == {RiderOrder[i] : i \in DOMAIN RiderOrder}
Slots == 1..NumSlots

\* Where getCurrentPosition finds each rider.
Location(r) ==
  IF r = "rider1" THEN [latitude |-> 40, longitude |-> -73]
                  ELSE [latitude |-> 41, longitude |-> -74]

Drivers == {[driverId |-> "driverA", driverName |-> "Alice", driverVehicle |-> "Civic"],
            [driverId |-> "driverB", driverName |-> "Bob", driverVehicle |-> "Prius"]}

DriverFields == {"driverId", "driverName", "driverVehicle"}

\* A JSON body that lacks the fields in `missing` and has "" in those in `empty`.
BodyOf(d, missing, empty) ==
  [f \in DriverFields \ missing |-> IF f \in empty THEN "" ELSE d[f]]

DriverA == CHOOSE d \in Drivers : d.driverId = "driverA"

\* The request bodies the drivers send: every driver's complete body, and
\* driverA's body with one field empty or missing, or with no field at all.
Bodies ==
  {BodyOf(d, {}, {}) : d \in Drivers}
    \cup {BodyOf(DriverA, {}, {"driverId"}), BodyOf(DriverA, {"driverName"}, {}),
          BodyOf(DriverA, DriverFields, {})}

\* The profile document the snapshot listener delivers: rider1 signed up with
\* an e-mail address, rider2 is an anonymous user without a profile document.
Null == [null |-> TRUE]
ProfileDoc(r) == IF r = "rider1" THEN [email |-> "rider1@x.com"] ELSE Null

NoDoc == [exists |-> FALSE]
NoBody == [none |-> TRUE]
NoUser == ""

\* ------------------------------------------------------------------- state

VARIABLES
  store,           \* rideRequests collection: document id -> document data
  now,             \* instant of the last applied write
  slot,            \* server: handler invocations
  userId,          \* App state: uid of the signed-in user
  userProfile,     \* Dashboard state: profile delivered by onSnapshot
  profileLoading,  \* Dashboard state: no profile snapshot delivered yet
  dash,            \* Dashboard: handleRequestRide invocation and its message
  profiles,        \* users whose profile document is stored
  snap             \* uid whose profile snapshot the listener has yet to deliver

vars == <<store, now, slot, userId, userProfile, profileLoading, dash, profiles, snap>>

\* -------------------------------------------------------- Firestore client

\* DocumentReference.get(): a snapshot with exists and, of data(), the status
\* (the handlers read exists only).
Get(s, id) ==
  IF id \in DOMAIN s THEN [exists |-> TRUE, status |-> s[id].status] ELSE NoDoc

\* Merge of fields into a document, as update() and object spread do it.
Merge(old, fields) ==
  [f \in DOMAIN old \cup DOMAIN fields |-> IF f \in DOMAIN fields THEN fields[f] ELSE old[f]]

\* update() applied to every document of the collection.
Update_All(s, id, fields) == [k \in DOMAIN s |-> Merge(s[k], fields)]

\* update() written as a set(): the document becomes the given fields.
Update_Replace(s, id, fields) == [s EXCEPT ![id] = fields]

\* DocumentReference.update(fields) of an existing document.
Update(s, id, fields) == [s EXCEPT ![id] = Merge(s[id], fields)]

\* setDoc as a write of the whole collection: the other documents are gone.
SetDoc_Only(s, id, data) == [k \in {id} |-> data]

\* setDoc with {merge: true}: the fields of the document there stay.
SetDoc_Merge(s, id, data) ==
  [k \in DOMAIN s \cup {id} |->
     IF k # id THEN s[k] ELSE IF id \in DOMAIN s THEN Merge(s[id], data) ELSE data]

\* setDoc(ref, data) without merge: inserts or replaces the whole document.
SetDoc(s, id, data) == [k \in DOMAIN s \cup {id} |-> IF k = id THEN data ELSE s[k]]

\* JavaScript truthiness of a body field that may be missing.
Falsy(body, f) == f \notin DOMAIN body \/ body[f] = ""

IdleSlot == [kind |-> "none", pc |-> "idle", id |-> "", body |-> NoBody, doc |-> NoDoc,
             res |-> 0, json |-> <<>>]
IdleDash == [pc |-> "idle", file |-> "", data |-> NoBody, msg |-> "", severity |-> "success"]

\* The users who signed up with an e-mail address.
Accounts == {r \in Riders : ProfileDoc(r) # Null}

\* The application starts with no one signed in and no ride request stored.
Start ==
  /\ store = <<>>
  /\ now = 0
  /\ slot = [q \in Slots |-> IdleSlot]
  /\ userId = NoUser
  /\ userProfile = Null
  /\ profileLoading = TRUE
  /\ dash = IdleDash
  /\ snap = NoUser

\* The accounts were created in an earlier session: their profiles are stored.
Init == Start /\ profiles = Accounts

\* No account has been created yet.
RiderInit == Start /\ profiles = {}

\* ------------------------------------------------------ rider: Dashboard

\* docSnap of the profile document of r: data() when it exists, else null.
Snapshot(p, r) == IF r \in p THEN ProfileDoc(r) ELSE Null

\* The change of user without the cleanup of the Dashboard's effect: the
\* listener of the previous user stays registered.
AuthStateChanged_NoCleanup ==
  /\ dash.pc = "idle"
  /\ \E u \in Riders \cup {NoUser} :
       /\ u # userId
       /\ userId' = u
       /\ snap' = IF snap # NoUser THEN snap ELSE u
  /\ userProfile' = Null
  /\ profileLoading' = TRUE
  /\ dash' = IdleDash
  /\ UNCHANGED <<store, now, slot, profiles>>

\* onAuthStateChanged callback of App: sets userId (null when no user is signed
\* in and the anonymous sign-in fails).  The model has every change of user
\* happen between two requests of the Dashboard and mount the Dashboard anew,
\* so that a request is sent with the profile of the user who sends it.  The
\* effect of the Dashboard (dependencies db, userId) then runs its cleanup,
\* which unsubscribes the listener of the previous user, and registers
\* onSnapshot on the profile document of the new user, which is to deliver
\* that document once at first; with no user it registers nothing.
AuthStateChanged ==
  /\ dash.pc = "idle"
  /\ \E u \in Riders \cup {NoUser} :
       /\ u # userId
       /\ userId' = u
       /\ snap' = u
  /\ userProfile' = Null
  /\ profileLoading' = TRUE
  /\ dash' = IdleDash
  /\ UNCHANGED <<store, now, slot, profiles>>

\* onSnapshot callback of the profile document: the listener delivers the
\* document as it is now.
OnSnapshot ==
  /\ snap # NoUser
  /\ userProfile' = Snapshot(profiles, snap)
  /\ profileLoading' = FALSE
  /\ snap' = NoUser
  /\ UNCHANGED <<store, now, slot, userId, dash, profiles>>

\* handleSubmit of AuthScreen when signing up: createUserWithEmailAndPassword
\* has signed the user in, and the awaited setDoc now stores the profile
\* document, of which the listener on that document is notified.
ProfileWritten ==
  /\ userId \in Accounts \ profiles
  /\ profiles' = profiles \cup {userId}
  /\ snap' = userId
  /\ UNCHANGED <<store, now, slot, userId, userProfile, profileLoading, dash>>

\* userProfile?.email || 'N/A'
RiderEmail(p) == IF "email" \in DOMAIN p /\ p.email # "" THEN p.email ELSE "N/A"

\* `Lat: ${latitude}, Lng: ${longitude}`
PickupLocation(pos) ==
  "Lat: " \o ToString(pos.latitude) \o ", Lng: " \o ToString(pos.longitude)

\* The button is rendered once the profile has loaded.
Clickable == dash.pc = "idle" /\ (userId = NoUser \/ ~profileLoading)

\* The message a handler leaves on the screen: setSnackbarMessage and
\* setSnackbarSeverity in _app.js, setRideRequestStatus in app.js (shown green
\* when it includes 'successfully', red otherwise).
Show(pc, file, data, msg, severity) ==
  [pc |-> pc, file |-> file, data |-> data, msg |-> msg, severity |-> severity]

\* handleRequestRide of _app.js up to getCurrentPosition: the guard on db and
\* userId and the check of navigator.geolocation.
HandleRequestRide ==
  /\ Clickable
  /\ \E geo \in BOOLEAN :
       dash' =
         IF userId = NoUser
           THEN Show("idle", "_app.js", NoBody, "Please log in to request a ride.", "error")
         ELSE IF ~geo
           THEN Show("idle", "_app.js", NoBody,
                     "Geolocation is not supported by your browser.", "error")
         ELSE Show("locating", "_app.js",
                   [riderId |-> userId, riderEmail |-> RiderEmail(userProfile)],
                   "Getting your location...", "info")
  /\ UNCHANGED <<store, now, slot, userId, userProfile, profileLoading, profiles, snap>>

\* The document with latitude and longitude exchanged.
RideRequestData_Swapped(riderId, pos, riderEmail) ==
  [riderId |-> riderId,
   pickupLocation |-> PickupLocation(pos),
   pickupLatitude |-> pos.longitude,
   pickupLongitude |-> pos.latitude,
   destination |-> "Destination (Placeholder)",
   status |-> "pending",
   riderEmail |-> riderEmail]

\* The document handleRequestRide of _app.js passes to setDoc; its timestamp
\* (new Date()) is the instant of the write.
RideRequestData(riderId, pos, riderEmail) ==
  [riderId |-> riderId,
   pickupLocation |-> PickupLocation(pos),
   pickupLatitude |-> pos.latitude,
   pickupLongitude |-> pos.longitude,
   destination |-> "Destination (Placeholder)",
   status |-> "pending",
   riderEmail |-> riderEmail]

\* Success callback of getCurrentPosition: builds the document and calls setDoc.
PositionSuccess ==
  /\ dash.pc = "locating"
  /\ dash' = Show("writing", "_app.js",
                  RideRequestData(dash.data.riderId, Location(dash.data.riderId),
                                  dash.data.riderEmail),
                  "Requesting ride...", "info")
  /\ UNCHANGED <<store, now, slot, userId, userProfile, profileLoading, profiles, snap>>

GeoErrors == {"PERMISSION_DENIED", "POSITION_UNAVAILABLE", "TIMEOUT", "UNKNOWN"}

GeoErrorMessage(code) ==
  CASE code = "PERMISSION_DENIED" ->
         "Location access denied. Please enable location services for this app."
    [] code = "POSITION_UNAVAILABLE" -> "Location information is unavailable."
    [] code = "TIMEOUT" -> "The request to get user location timed out."
    [] OTHER -> "Unable to retrieve your location."

\* The error callback going on to the write with the placeholder location.
PositionError_Proceeds ==
  /\ dash.pc = "locating"
  /\ dash' = Show("writing", "_app.js",
                  [riderId |-> dash.data.riderId,
                   pickupLocation |-> "Current Location (Placeholder)",
                   destination |-> "Destination (Placeholder)",
                   status |-> "pending",
                   riderEmail |-> dash.data.riderEmail],
                  "Requesting ride...", "info")
  /\ UNCHANGED <<store, now, slot, userId, userProfile, profileLoading, profiles, snap>>

\* Error callback of getCurrentPosition.
PositionError ==
  /\ dash.pc = "locating"
  /\ \E code \in GeoErrors :
       dash' = Show("idle", "_app.js", NoBody,
                    "Geolocation error: " \o GeoErrorMessage(code), "error")
  /\ UNCHANGED <<store, now, slot, userId, userProfile, profileLoading, profiles, snap>>

\* The document handleRequestRide of app.js passes to setDoc.
RideRequestDataApp(riderId, riderEmail) ==
  [riderId |-> riderId,
   pickupLocation |-> "Current Location (Placeholder)",
   destination |-> "Destination (Placeholder)",
   status |-> "pending",
   riderEmail |-> riderEmail]

\* handleRequestRide of app.js, which asks for no position: the guard on db
\* and userId, then setDoc.
HandleRequestRideApp ==
  /\ Clickable
  /\ dash' =
       IF userId = NoUser
         THEN Show("idle", "app.js", NoBody, "Please log in to request a ride.", "error")
         ELSE Show("writing", "app.js",
                   RideRequestDataApp(userId, RiderEmail(userProfile)),
                   "Requesting ride...", "error")
  /\ UNCHANGED <<store, now, slot, userId, userProfile, profileLoading, profiles, snap>>

\* The awaited setDoc resolves: the document is in the store.
SetDocDone ==
  /\ dash.pc = "writing"
  /\ now < MaxTime
  /\ now' = now + 1
  /\ store' = SetDoc(store, dash.data.riderId, Merge(dash.data, [timestamp |-> now']))
  /\ dash' = Show("idle", dash.file, NoBody,
                  IF dash.file = "app.js"
                    THEN "Ride requested successfully! Waiting for a driver..."
                    ELSE "Ride requested successfully! Drivers have been alerted.",
                  "success")
  /\ UNCHANGED <<slot, userId, userProfile, profileLoading, profiles, snap>>

\* error.message of a rejected setDoc.
ErrorMessage == "unavailable"

\* The awaited setDoc rejects (catch block).
SetDocFailed ==
  /\ dash.pc = "writing"
  /\ dash' = Show("idle", dash.file, NoBody, "Failed to request ride: " \o ErrorMessage, "error")
  /\ UNCHANGED <<store, now, slot, userId, userProfile, profileLoading, profiles, snap>>

\* ------------------------------------------------- server: Express routes

\* A handler starts in the next free slot.
Fresh(q) ==
  /\ slot[q].pc = "idle"
  /\ \A p \in Slots : p < q => slot[p].pc # "idle"

\* The query without its where clause.
PendingIds_NoFilter(s) == SelectSeq(RiderOrder, LAMBDA k : k \in DOMAIN s)

\* where('status', '==', 'pending').get(): the matching documents, by id.
PendingIds(s) ==
  SelectSeq(RiderOrder, LAMBDA k : k \in DOMAIN s /\ "status" \in DOMAIN s[k]
                                     /\ s[k].status = "pending")

\* The response with the first document of the snapshot only.
RideRequests_First(s) ==
  [i \in 1..(IF Len(PendingIds(s)) > 0 THEN 1 ELSE 0) |->
     Merge([id |-> PendingIds(s)[i]], s[PendingIds(s)[i]])]

\* snapshot.forEach(doc => rideRequests.push({id: doc.id, ...doc.data()}))
RideRequests(s) ==
  [i \in DOMAIN PendingIds(s) |-> Merge([id |-> PendingIds(s)[i]], s[PendingIds(s)[i]])]

\* GET /api/ride-requests up to the await of the query.
List(q) ==
  /\ Fresh(q)
  /\ slot' = [slot EXCEPT ![q] = [IdleSlot EXCEPT !.kind = "list", !.pc = "query"]]
  /\ UNCHANGED <<store, now, userId, userProfile, profileLoading, dash, profiles, snap>>

\* The awaited query resolves and the handler responds with the array.
QueryDone(q) ==
  /\ slot[q].pc = "query"
  /\ slot' = [slot EXCEPT ![q] =
       [@ EXCEPT !.pc = "done", !.res = 200, !.json = RideRequests(store)]]
  /\ UNCHANGED <<store, now, userId, userProfile, profileLoading, dash, profiles, snap>>

\* The validation testing that the fields are there, not that they are filled.
MissingDriverField_Absent(body) == \E f \in DriverFields : f \notin DOMAIN body

\* The validation with the driverId test only.
MissingDriverField_IdOnly(body) == Falsy(body, "driverId")

\* if (!driverId || !driverName || !driverVehicle)
MissingDriverField(body) == \E f \in DriverFields : Falsy(body, f)

\* POST /api/ride-requests/:id/accept up to the first await: validates the
\* body and issues rideRequestRef.get().
Accept(q) ==
  /\ Fresh(q)
  /\ \E id \in Riders, body \in Bodies :
       slot' = [slot EXCEPT ![q] =
         IF MissingDriverField(body)
           THEN [IdleSlot EXCEPT !.kind = "accept", !.pc = "done", !.id = id,
                                 !.body = body, !.res = 400]
           ELSE [IdleSlot EXCEPT !.kind = "accept", !.pc = "get", !.id = id,
                                 !.body = body]]
  /\ UNCHANGED <<store, now, userId, userProfile, profileLoading, dash, profiles, snap>>

\* POST /api/ride-requests/:id/complete up to the first await.
Complete(q) ==
  /\ Fresh(q)
  /\ \E id \in Riders :
       slot' = [slot EXCEPT ![q] =
         [IdleSlot EXCEPT !.kind = "complete", !.pc = "get", !.id = id]]
  /\ UNCHANGED <<store, now, userId, userProfile, profileLoading, dash, profiles, snap>>

\* The lookup without the test of doc.exists.
GetDone_NoExistsCheck(q) ==
  /\ slot[q].pc = "get"
  /\ slot' = [slot EXCEPT ![q] = [@ EXCEPT !.pc = "update", !.doc = Get(store, slot[q].id)]]
  /\ UNCHANGED <<store, now, userId, userProfile, profileLoading, dash, profiles, snap>>

\* The awaited get() resolves: 404 when the document does not exist, else the
\* handler issues the update.  The same code in both routes.
GetDone(q) ==
  /\ slot[q].pc = "get"
  /\ LET doc == Get(store, slot[q].id) IN
       slot' = [slot EXCEPT ![q] =
         IF ~doc.exists
           THEN [@ EXCEPT !.pc = "done", !.res = 404]
           ELSE [@ EXCEPT !.pc = "update", !.doc = doc]]
  /\ UNCHANGED <<store, now, userId, userProfile, profileLoading, dash, profiles, snap>>

\* The accept route passing the whole body on, its id as riderId.
AcceptFields_WithRider(body, t) ==
  [status |-> "accepted",
   riderId |-> body.driverId,
   driverId |-> body.driverId,
   driverName |-> body.driverName,
   driverVehicle |-> body.driverVehicle,
   acceptedAt |-> t]

\* The fields the accept route passes to update(), with the server timestamp.
AcceptFields(body, t) ==
  [status |-> "accepted",
   driverId |-> body.driverId,
   driverName |-> body.driverName,
   driverVehicle |-> body.driverVehicle,
   acceptedAt |-> t]

\* The fields the complete route passes to update().
CompleteFields(t) == [status |-> "completed", completedAt |-> t]

\* The update with a test of the status: applied to a pending document only,
\* answered 409 otherwise.
UpdateDone_PendingOnly(q, fields) ==
  /\ slot[q].pc = "update"
  /\ now < MaxTime
  /\ IF slot[q].id \in DOMAIN store /\ store[slot[q].id].status = "pending"
       THEN /\ now' = now + 1
            /\ store' = Update(store, slot[q].id, fields)
            /\ slot' = [slot EXCEPT ![q] = [@ EXCEPT !.pc = "done", !.doc = NoDoc, !.res = 200]]
       ELSE /\ slot' = [slot EXCEPT ![q] = [@ EXCEPT !.pc = "done", !.doc = NoDoc, !.res = 409]]
            /\ UNCHANGED <<store, now>>
  /\ UNCHANGED <<userId, userProfile, profileLoading, dash, profiles, snap>>

\* The awaited update() resolves and the handler responds 200.  update() of a
\* document that does not exist rejects, which the catch block turns into 500.
UpdateDone(q, fields) ==
  /\ slot[q].pc = "update"
  /\ now < MaxTime
  /\ IF slot[q].id \in DOMAIN store
       THEN /\ now' = now + 1
            /\ store' = Update(store, slot[q].id, fields)
            /\ slot' = [slot EXCEPT ![q] = [@ EXCEPT !.pc = "done", !.doc = NoDoc, !.res = 200]]
       ELSE /\ slot' = [slot EXCEPT ![q] = [@ EXCEPT !.pc = "done", !.doc = NoDoc, !.res = 500]]
            /\ UNCHANGED <<store, now>>
  /\ UNCHANGED <<userId, userProfile, profileLoading, dash, profiles, snap>>

AcceptUpdate(q) ==
  /\ slot[q].kind = "accept"
  /\ UpdateDone(q, AcceptFields(slot[q].body, now + 1))

CompleteUpdate(q) ==
  /\ slot[q].kind = "complete"
  /\ UpdateDone(q, CompleteFields(now + 1))

\* The catch block answering 200.
StoreError_Swallowed(q) ==
  /\ slot[q].pc \in {"query", "get", "update"}
  /\ slot' = [slot EXCEPT ![q] = [@ EXCEPT !.pc = "done", !.doc = NoDoc, !.res = 200]]
  /\ UNCHANGED <<store, now, userId, userProfile, profileLoading, dash, profiles, snap>>

\* An awaited store call rejects: the catch block responds 500.
StoreError(q) ==
  /\ slot[q].pc \in {"query", "get", "update"}
  /\ slot' = [slot EXCEPT ![q] = [@ EXCEPT !.pc = "done", !.doc = NoDoc, !.res = 500]]
  /\ UNCHANGED <<store, now, userId, userProfile, profileLoading, dash, profiles, snap>>

\* ------------------------------------------------------------ properties

Has(s, r, f) == r \in DOMAIN s /\ f \in DOMAIN s[r]

\* C1: every change of a record's status between two consecutive states is
\* pending -> accepted or accepted -> completed.
C1_StatusOnlyMovesForward ==
  [][\A r \in DOMAIN store :
       store'[r].status # store[r].status =>
         <<store[r].status, store'[r].status>>
           \in {<<"pending", "accepted">>, <<"accepted", "completed">>}]_vars

\* C2: an acceptRide whose lookup found the record pending, and whose update
\* comes after another driver's accept of that record was applied, does not
\* report success and leaves the record to that other driver.
C2_SecondAcceptFails ==
  [][\A q \in Slots :
       ( /\ slot[q].kind = "accept"
         /\ slot[q].pc = "update"
         /\ slot[q].doc.status = "pending"
         /\ store[slot[q].id].status = "accepted"
         /\ store[slot[q].id].driverId # slot[q].body.driverId
         /\ slot'[q].pc = "done" )
       => slot'[q].res # 200 /\ store'[slot[q].id] = store[slot[q].id]]_vars

AcceptedFields == {"driverId", "driverName", "driverVehicle", "acceptedAt"}

\* C3: driverId, driverName, driverVehicle and acceptedAt are absent from a
\* record until an accept sets them (a new record has none, and they appear
\* only in a step that makes the status accepted), and once set they stay set
\* and keep their values in every later state.
C3_DriverFieldsImmutable ==
  [][/\ \A r \in DOMAIN store' \ DOMAIN store :
          DOMAIN store'[r] \cap AcceptedFields = {}
     /\ \A r \in DOMAIN store : \A f \in AcceptedFields :
          /\ (f \notin DOMAIN store[r] /\ f \in DOMAIN store'[r])
               => store'[r].status = "accepted"
          /\ f \in DOMAIN store[r]
               => f \in DOMAIN store'[r] /\ store'[r][f] = store[r][f]]_vars

\* C4: a record carries completedAt only if its status is completed.
C4_CompletedAtOnlyWhenCompleted ==
  \A r \in DOMAIN store :
    "completedAt" \in DOMAIN store[r] => store[r].status = "completed"

\* C5: completeRide whose update reaches a record that is pending does not
\* report success and leaves the record pending without completedAt.
C5_CompletePendingFails ==
  [][\A q \in Slots :
       ( /\ slot[q].kind = "complete"
         /\ slot[q].pc = "update"
         /\ Has(store, slot[q].id, "status")
         /\ store[slot[q].id].status = "pending"
         /\ slot'[q].pc = "done" )
       => /\ slot'[q].res # 200
          /\ store'[slot[q].id].status = "pending"
          /\ "completedAt" \notin DOMAIN store'[slot[q].id]]_vars

\* C6: when the update of completeRide is applied to a record whose status is
\* accepted, the handler responds 200 and the record has status completed,
\* completedAt set, and its driver fields and acceptedAt as before.
C6_CompleteAccepted ==
  [][\A q \in Slots :
       ( /\ CompleteUpdate(q)
         /\ Has(store, slot[q].id, "status")
         /\ store[slot[q].id].status = "accepted" )
       => /\ slot'[q].res = 200
          /\ store'[slot[q].id].status = "completed"
          /\ "completedAt" \in DOMAIN store'[slot[q].id]
          /\ store'[slot[q].id].completedAt = now'
          /\ \A f \in AcceptedFields :
               /\ f \in DOMAIN store[slot[q].id]
               /\ f \in DOMAIN store'[slot[q].id]
               /\ store'[slot[q].id][f] = store[slot[q].id][f]]_vars

C6_Witness ==
  \E q \in Slots :
    /\ slot[q].kind = "complete" /\ slot[q].pc = "done" /\ slot[q].res = 200
    /\ Has(store, slot[q].id, "completedAt")
    /\ Has(store, slot[q].id, "driverId")
    /\ store[slot[q].id].status = "completed"
    /\ store[slot[q].id].driverId = "driverB"
    /\ store[slot[q].id].acceptedAt < store[slot[q].id].completedAt

\* C7: an accept request with a driver field empty or missing is answered 400
\* at once, whether or not a record exists at the id, without a store read
\* (no snapshot is taken) or write (the store is as before), and the handler
\* does nothing after.
C7_MissingFieldRejected ==
  [][\A q \in Slots :
       ( /\ slot'[q].kind = "accept"
         /\ \E f \in DriverFields : f \notin DOMAIN slot'[q].body \/ slot'[q].body[f] = "" )
       => /\ slot'[q].pc = "done"
          /\ slot'[q].res = 400
          /\ slot'[q].doc = NoDoc
          /\ slot[q].pc = "idle" => (store' = store /\ now' = now)]_vars

C7_Witness ==
  \E q1, q2 \in Slots :
    /\ slot[q1].res = 400 /\ slot[q1].id \in DOMAIN store
    /\ "driverName" \notin DOMAIN slot[q1].body
    /\ slot[q2].res = 400 /\ slot[q2].id \notin DOMAIN store
    /\ "driverId" \in DOMAIN slot[q2].body
    /\ slot[q2].body.driverId = ""

\* C8: when the lookup of acceptRide (valid driver fields) or completeRide
\* finds no record at the id, the handler responds 404, the store is as
\* before (no record is created, no other record changes), and the handler
\* does nothing after.
C8_UnknownIdNotFound ==
  [][\A q \in Slots :
       /\ (GetDone(q) /\ slot[q].id \notin DOMAIN store)
            => slot'[q].pc = "done" /\ slot'[q].res = 404 /\ store' = store
       /\ slot[q].res = 404 => slot'[q] = slot[q]]_vars

C8_Witness ==
  /\ \E q \in Slots :
       slot[q].kind = "accept" /\ slot[q].res = 404 /\ slot[q].id \notin DOMAIN store
  /\ \E q \in Slots :
       slot[q].kind = "complete" /\ slot[q].res = 404 /\ slot[q].id \notin DOMAIN store
  /\ DOMAIN store # {}

\* C9: right after a successful requestRide the record at the rider's key has
\* status pending and the submitted riderId, pickup coordinates (those the
\* position lookup delivered), destination and riderEmail.
C9_RequestStoresSubmittedFields ==
  [][SetDocDone =>
       LET r == dash.data.riderId IN
         /\ r \in Riders
         /\ r \in DOMAIN store'
         /\ store'[r].status = "pending"
         /\ store'[r].riderId = r
         /\ store'[r].destination = "Destination (Placeholder)"
         /\ store'[r].riderEmail = dash.data.riderEmail
         /\ store'[r].riderEmail = (IF r = "rider1" THEN "rider1@x.com" ELSE "N/A")
         /\ dash.file = "_app.js" =>
              /\ Has(store', r, "pickupLatitude")
              /\ Has(store', r, "pickupLongitude")
              /\ store'[r].pickupLatitude = Location(r).latitude
              /\ store'[r].pickupLongitude = Location(r).longitude]_vars

C9_Witness ==
  /\ dash.msg = "Ride requested successfully! Drivers have been alerted."
  /\ Has(store, "rider2", "pickupLatitude")
  /\ store["rider2"].status = "pending"
  /\ store["rider2"].pickupLatitude = 41
  /\ store["rider2"].riderEmail = "N/A"
  /\ store["rider2"].timestamp = now
  /\ Has(store, "rider1", "riderEmail")
  /\ store["rider1"].riderEmail = "rider1@x.com"

\* C10: the array a list request responds with holds only records whose
\* status is pending in the store at the moment of the query.
C10_ListOnlyPending ==
  [][\A q \in Slots :
       (slot[q].pc = "query" /\ slot'[q].res = 200)
       => \A i \in DOMAIN slot'[q].json :
            /\ slot'[q].json[i].status = "pending"
            /\ Has(store, slot'[q].json[i].id, "status")
            /\ store[slot'[q].json[i].id].status = "pending"]_vars

C10_Witness ==
  \E q \in Slots :
    /\ slot[q].kind = "list" /\ slot[q].res = 200
    /\ Len(slot[q].json) = 1
    /\ \E r \in DOMAIN store :
         /\ store[r].status = "accepted"
         /\ r # slot[q].json[1].id
         /\ store[r].acceptedAt < slot[q].json[1].timestamp

\* C11: a record that exists at a rider key exists at that key in every later
\* state (no step removes a key of the store), and the store holds one record
\* per key, its keys being rider ids.
C11_NoDeletion ==
  [][/\ DOMAIN store \subseteq DOMAIN store'
     /\ DOMAIN store' \subseteq Riders
     /\ Cardinality(DOMAIN store') <= Cardinality(Riders)
     /\ Cardinality(DOMAIN store') <= Cardinality(DOMAIN store) + 1]_vars

C11_Witness ==
  /\ DOMAIN store = Riders
  /\ \E r \in Riders : store[r].status = "completed" /\ store[r].timestamp = 1
  /\ now = MaxTime

C13_AcceptIgnoresStatus ==
  [][\A q \in Slots :
       (AcceptUpdate(q) /\ slot[q].id \in DOMAIN store)
       => /\ slot'[q].res = 200
          /\ store'[slot[q].id].status = "accepted"
          /\ \A f \in DriverFields : store'[slot[q].id][f] = slot[q].body[f]
          /\ store'[slot[q].id].acceptedAt = now']_vars

C13_Witness ==
  \E q1, q2 \in Slots :
    /\ slot[q1].kind = "accept" /\ slot[q1].res = 200
    /\ slot[q2].kind = "accept" /\ slot[q2].res = 200
    /\ slot[q1].id = slot[q2].id
    /\ slot[q1].body.driverId = "driverA"
    /\ slot[q2].body.driverId = "driverB"
    /\ Has(store, slot[q1].id, "acceptedAt")
    /\ store[slot[q1].id].status = "accepted"
    /\ store[slot[q1].id].driverName = "Alice"
    /\ store[slot[q1].id].acceptedAt = now

\* C14: a successful requestRide leaves at the rider's key a record with
\* status pending that has exactly the fields requestRide wrote, so none of
\* driverId, driverName, driverVehicle, acceptedAt and completedAt, whatever
\* record was there.
C14_RequestReplaces ==
  [][SetDocDone =>
       LET r == dash.data.riderId IN
         /\ r \in DOMAIN store'
         /\ store'[r].status = "pending"
         /\ DOMAIN store'[r] = DOMAIN dash.data \cup {"timestamp"}
         /\ DOMAIN store'[r] \cap (AcceptedFields \cup {"completedAt"}) = {}
         /\ \A f \in DOMAIN dash.data : store'[r][f] = dash.data[f]
         /\ store'[r].timestamp = now']_vars

C14_Witness ==
  \E q \in Slots :
    /\ slot[q].kind = "accept" /\ slot[q].res = 200
    /\ Has(store, slot[q].id, "timestamp")
    /\ store[slot[q].id].timestamp = now
    /\ now = MaxTime
    /\ store[slot[q].id].status = "pending"
    /\ "driverId" \notin DOMAIN store[slot[q].id]

\* C15: the array of a list response has exactly one entry for every record
\* that is pending when the query is answered, the entry being the record with
\* id set to its key (an empty array when none is pending), and the response
\* stays as it is whatever is written after.
C15_ListIsSnapshot ==
  [][\A q \in Slots :
       /\ (slot[q].pc = "query" /\ slot'[q].res = 200)
            => LET js == slot'[q].json
                   pending == {r \in DOMAIN store : store[r].status = "pending"}
               IN /\ {js[i].id : i \in DOMAIN js} = pending
                  /\ Len(js) = Cardinality(pending)
                  /\ \A i \in DOMAIN js :
                       /\ DOMAIN js[i] = DOMAIN store[js[i].id] \cup {"id"}
                       /\ \A f \in DOMAIN store[js[i].id] : js[i][f] = store[js[i].id][f]
       /\ (slot[q].kind = "list" /\ slot[q].pc = "done") => slot'[q] = slot[q]]_vars

C15_Witness ==
  \E q1, q2 \in Slots :
    /\ slot[q1].kind = "list" /\ slot[q1].res = 200 /\ slot[q1].json = <<>>
    /\ slot[q2].kind = "list" /\ slot[q2].res = 200 /\ Len(slot[q2].json) = 2
    /\ \E i \in 1..2 : store[slot[q2].json[i].id].status = "pending"
                         /\ store[slot[q2].json[i].id].timestamp > slot[q2].json[i].timestamp

\* C16: a handler responds once (a response is final: nothing of the handler
\* changes after it), with a status of its route: 200 or 500 for list, 200,
\* 400, 404 or 500 for accept, 200, 404 or 500 for complete; a store call that
\* rejects is answered 500, with the store as it was, and is not called again.
C16_OneResponse ==
  [][\A q \in Slots :
       /\ slot[q].pc = "done" => slot'[q] = slot[q]
       /\ slot'[q].pc \in {"idle", "query", "get", "update", "done"}
       /\ (slot'[q].pc = "done") <=> (slot'[q].res # 0)
       /\ slot'[q].pc = "done" =>
            slot'[q].res \in (CASE slot'[q].kind = "list" -> {200, 500}
                                [] slot'[q].kind = "accept" -> {200, 400, 404, 500}
                                [] slot'[q].kind = "complete" -> {200, 404, 500})
       /\ StoreError(q) => slot'[q].pc = "done" /\ slot'[q].res = 500 /\ store' = store]_vars

C16_Witness ==
  \E q1, q2 \in Slots :
    /\ slot[q1].kind = "accept" /\ slot[q1].res = 500
    /\ Has(store, slot[q1].id, "status")
    /\ store[slot[q1].id].status = "pending"
    /\ slot[q2].kind = "complete" /\ slot[q2].res = 500
    /\ slot[q2].id = slot[q1].id

\* C17: a step changes the record, or the absence of a record, at the key of
\* its operation only (the rider of requestRide, the id of acceptRide and
\* completeRide), and a lookup reads the record at the id of its request only.
C17_OtherKeysUnchanged ==
  [][/\ \A r \in Riders :
          ( \/ (r \in DOMAIN store) # (r \in DOMAIN store')
            \/ (r \in DOMAIN store /\ r \in DOMAIN store' /\ store'[r] # store[r]) )
          => \/ SetDocDone /\ r = dash.data.riderId
             \/ \E q \in Slots : (AcceptUpdate(q) \/ CompleteUpdate(q)) /\ r = slot[q].id
     /\ \A q \in Slots :
          slot'[q].doc # slot[q].doc => slot'[q].doc \in {NoDoc, Get(store, slot[q].id)}]_vars

C17_Witness ==
  \E r1, r2 \in DOMAIN store :
    /\ r1 # r2
    /\ store[r1].status = "accepted" /\ store[r1].acceptedAt = now
    /\ store[r1].timestamp = 2
    /\ store[r2].status = "pending" /\ store[r2].timestamp = 1
    /\ "driverId" \notin DOMAIN store[r2]

RiderFields == {"riderId", "pickupLocation", "pickupLatitude", "pickupLongitude",
                "destination", "riderEmail", "timestamp"}

\* C18: the update of acceptRide and of completeRide leaves riderId, the
\* pickup fields, destination, riderEmail and timestamp of the record as they
\* were when it was applied, and in every state the riderId of a record is
\* the key the record is stored under.
C18_MergeKeepsRiderFields ==
  /\ [][\A q \in Slots :
          (AcceptUpdate(q) \/ CompleteUpdate(q)) =>
            \A f \in RiderFields :
              /\ (f \in DOMAIN store'[slot[q].id]) <=> (f \in DOMAIN store[slot[q].id])
              /\ f \in DOMAIN store[slot[q].id]
                   => store'[slot[q].id][f] = store[slot[q].id][f]]_vars
  /\ [](\A r \in DOMAIN store : "riderId" \in DOMAIN store[r] /\ store[r].riderId = r)

C18_Witness ==
  /\ Has(store, "rider1", "completedAt")
  /\ Has(store, "rider1", "acceptedAt")
  /\ Has(store, "rider1", "pickupLatitude")
  /\ store["rider1"].status = "completed"
  /\ store["rider1"].riderId = "rider1"
  /\ store["rider1"].riderEmail = "rider1@x.com"
  /\ store["rider1"].pickupLatitude = 40
  /\ store["rider1"].timestamp = 1

\* C19: a record whose status is accepted has driverId, driverName and
\* driverVehicle, none of them empty, and acceptedAt, the instant of a write.
C19_AcceptedHasDriver ==
  \A r \in DOMAIN store :
    store[r].status = "accepted" =>
      /\ \A f \in DriverFields : f \in DOMAIN store[r] /\ store[r][f] # ""
      /\ "acceptedAt" \in DOMAIN store[r]
      /\ store[r].acceptedAt \in 1..now

C19_Witness ==
  \E r \in DOMAIN store :
    /\ store[r].status = "accepted"
    /\ "completedAt" \in DOMAIN store[r]
    /\ store[r].driverVehicle = "Prius"
    /\ store[r].completedAt < store[r].acceptedAt

\* C20 as claimed: handleRequestRide writes once at most, the write ending the
\* invocation, and only with a user id and after the position lookup has
\* succeeded; without user, without geolocation or when the lookup fails it
\* shows an error and writes nothing.
C20_WriteOnlyAfterPosition ==
  [][/\ SetDocDone =>
          /\ dash.data.riderId \in Riders
          /\ "pickupLatitude" \in DOMAIN dash.data
          /\ dash'.pc = "idle"
     /\ (dash' # dash /\ ~SetDocDone) => store' = store
     /\ ( \/ (HandleRequestRide \/ HandleRequestRideApp) /\ userId = NoUser
          \/ HandleRequestRide /\ dash'.pc = "idle"
          \/ PositionError )
        => /\ dash'.pc = "idle" /\ dash'.severity = "error" /\ dash'.msg # ""
           /\ store' = store]_vars

\* C20 as amended: as claimed, except that the write follows a successful
\* position lookup in the handler of _app.js only; the handler of app.js
\* looks up no position and writes once the user id is there.
C20_WriteOnlyAfterGuards ==
  [][/\ SetDocDone =>
          /\ dash.data.riderId \in Riders
          /\ dash.file = "_app.js" =>
               /\ "pickupLatitude" \in DOMAIN dash.data
               /\ dash.data.pickupLatitude = Location(dash.data.riderId).latitude
          /\ dash.file = "app.js" => "pickupLatitude" \notin DOMAIN dash.data
          /\ dash'.pc = "idle"
     /\ (dash' # dash /\ ~SetDocDone) => store' = store
     /\ ( \/ (HandleRequestRide \/ HandleRequestRideApp) /\ userId = NoUser
          \/ HandleRequestRide /\ dash'.pc = "idle"
          \/ PositionError )
        => /\ dash'.pc = "idle" /\ dash'.severity = "error" /\ dash'.msg # ""
           /\ store' = store]_vars

C20_Witness ==
  /\ dash.msg = "Geolocation error: The request to get user location timed out."
  /\ dash.severity = "error"
  /\ userId = "rider2"
  /\ Has(store, "rider2", "pickupLocation")
  /\ store["rider2"].pickupLocation = "Current Location (Placeholder)"
  /\ store["rider2"].status = "accepted"

Next ==
  \/ AuthStateChanged
  \/ OnSnapshot
  \/ HandleRequestRide
  \/ HandleRequestRideApp
  \/ PositionSuccess
  \/ PositionError
  \/ SetDocDone
  \/ SetDocFailed
  \/ \E q \in Slots : List(q)
  \/ \E q \in Slots : QueryDone(q)
  \/ \E q \in Slots : Accept(q)
  \/ \E q \in Slots : Complete(q)
  \/ \E q \in Slots : GetDone(q)
  \/ \E q \in Slots : AcceptUpdate(q)
  \/ \E q \in Slots : CompleteUpdate(q)
  \/ \E q \in Slots : StoreError(q)

Spec == Init /\ [][Next]_vars

\* The rider's application alone, from the creation of the accounts on.  The
\* listener delivers a snapshot it has to deliver unless it is unsubscribed.
RiderNext ==
  \/ AuthStateChanged
  \/ ProfileWritten
  \/ OnSnapshot
  \/ HandleRequestRide
  \/ HandleRequestRideApp
  \/ PositionSuccess
  \/ PositionError
  \/ SetDocDone
  \/ SetDocFailed

RiderSpec == RiderInit /\ [][RiderNext]_vars /\ WF_vars(OnSnapshot)
====
